---- MODULE Spec2Model ----
(***************************************************************************)
(* A model of the request handlers of oioioi: contests/views.py,           *)
(* teachers/views.py and programs/admin.py.  One action per view; the      *)
(* database tables the views read and write are the state, and the last    *)
(* request, its response, the messages it recorded and the mail it sent    *)
(* are kept so that properties can speak about what a view did.            *)
(***************************************************************************)
EXTENDS Integers, Sequences, FiniteSets, TLC

VARIABLES
    req,                 \* the last request: the view and its inputs
    resp,                \* the response to it
    messages,            \* django.contrib.messages recorded by it
    outbox,              \* the mail sent by it
    submissions,         \* table Submission: a sequence of rows, id = index
    reports,             \* table SubmissionReport: a sequence of rows, id = index
    statements,          \* table ProblemStatement, in the order a query returns it
    teachers,            \* table Teacher: a sequence of rows, pk = index
    acceptMails,         \* acceptance emails sent so far, per user
    inflight,            \* accept_teacher_view requests being served, per worker
    registrationConfig,  \* table RegistrationConfig, one row per contest at most
    pupils,              \* table Pupil: number of rows per <<contest, user>>
    contestTeachers,     \* table ContestTeacher: number of rows per <<contest, user>>
    retiredKeys,         \* history: keys that regenerate_key_view replaced
    lastSet              \* history: the last value set_registration_view stored

vars == <<req, resp, messages, outbox, submissions, reports, statements, teachers, acceptMails, inflight,
          registrationConfig, pupils, contestTeachers, retiredKeys, lastSet>>

contestVars == <<submissions, reports, statements>>
teacherVars == <<teachers, acceptMails, inflight>>
registrationVars == <<registrationConfig, pupils, contestTeachers,
                      retiredKeys, lastSet>>

----------------------------------------------------------------------------
(* Bounds of the model.                                                    *)

\* how many keys one RegistrationConfig can go through
MaxKeys == 3
\* rows of the Teacher table
MaxTeacherRows == 3
\* rows of the Submission table
MaxSubmissions == 2
\* rows of the SubmissionReport table
MaxReports == 2
\* rows of the ProblemStatement table of one problem
MaxStatements == 2

Users == {"u1", "u2"}
Anonymous == "anon"
Contests == {"c1", "c2"}
\* the contest whose registration flow is exercised; the other one is there to
\* be the other contest of its teacher
FlowContests == {"c1"}
Keys == 1..MaxKeys
Schools == {"s1", "s2"}
\* a user id no User row has
NoSuchUser == "u9"
\* the workers that serve requests at the same time
MaxWorkers == 3
Workers == 1..MaxWorkers
\* the absent request parameter
NoParam == "-"
RegisterAsValues == {NoParam, "pupil", "teacher", "admin"}

----------------------------------------------------------------------------
(* Responses.                                                              *)

TemplateResponse(template, context) ==
    [kind |-> "template", template |-> template, context |-> context]

Redirect(to, args) == [kind |-> "redirect", to |-> to, args |-> args]

Http404 == [kind |-> "Http404"]

PermissionDenied == [kind |-> "PermissionDenied"]

SuspiciousOperation == [kind |-> "SuspiciousOperation"]

\* an exception no handler catches: the framework answers 500
ServerError(exception) == [kind |-> "error", exception |-> exception]

\* login_required and user_passes_test send the user to the login page
RedirectToLogin == Redirect("login", <<>>)

NoConfig == [exists |-> FALSE, key |-> 0, is_active |-> FALSE]

\* a worker that serves no request
Idle == [pc |-> "idle", user_id |-> "-", pk |-> 0, is_active |-> FALSE,
         message |-> "-"]

----------------------------------------------------------------------------
(* teachers/views.py: the registration flow of one contest.                *)

\* the tables' rows for one key, as the ORM's get and get_or_create see them
Rows(table, key) == table[key]

\* Model.objects.get_or_create(**key): one more row only when there is none
GetOrCreate(table, key) ==
    IF table[key] = 0 THEN [table EXCEPT ![key] = 1] ELSE table

\* User.objects.filter(teacher__contestteacher__contest=contest)
TeachersOf(contest) == {u \in Users : contestTeachers[<<contest, u>>] > 0}

\* User.objects.filter(pupil__contest=contest)
PupilsOf(contest) == {u \in Users : pupils[<<contest, u>>] > 0}

\* Contest.objects.filter(contestteacher__teacher__user=user).exclude(id=contest)
OtherContests(user, contest) ==
    {c \in Contests \ {contest} : contestTeachers[<<c, user>>] > 0}

\* the rows of Teacher whose user is u, by primary key
TeacherRows(u) == {i \in DOMAIN teachers : teachers[i].user = u}

\* a RegistrationConfig as its model creates it: a first key, registration open
NewRegistrationConfig == [exists |-> TRUE, key |-> 1, is_active |-> TRUE]

\* RegistrationConfig.generate_key(): a key this configuration never had
generate_key(config) == [config EXCEPT !.key = config.key + 1]

\* activate_pupil_view, line 124
KeyOk(config, key) == config.key = key

\* line 125 without the test of is_active
MayActivateKeyOnly(config, key) == KeyOk(config, key)

\* activate_pupil_view, line 125
MayActivate(config, key) == KeyOk(config, key) /\ config.is_active

\* lines 126-133 without the test of the teacher permission
RegisterAsRequested(is_teacher, register_as) == register_as

\* activate_pupil_view, lines 126-133: what the user is registered as; NoParam
\* is the teacher who has not chosen yet
RegisterAs(is_teacher, register_as) ==
    IF ~is_teacher THEN "pupil" ELSE register_as

\* line 158 storing 'active' whatever the value
StoredActiveAlways(value) == TRUE

\* set_registration_view, line 158
StoredActive(value) == value

\* regenerate_key_view, line 166
Regenerated(config) == generate_key(config)

pupils_view(user, contest, is_admin) ==
    /\ req' = [view |-> "pupils_view", user |-> user, contest |-> contest,
               is_admin |-> is_admin]
    /\ messages' = <<>>
    /\ outbox' = <<>>
    /\ UNCHANGED <<contestVars, teacherVars, pupils, contestTeachers, retiredKeys, lastSet>>
    /\ IF ~is_admin
       THEN /\ resp' = PermissionDenied
            /\ UNCHANGED registrationConfig
       ELSE LET config == IF registrationConfig[contest].exists
                          THEN registrationConfig[contest]
                          ELSE NewRegistrationConfig
            IN /\ registrationConfig' =
                      [registrationConfig EXCEPT ![contest] = config]
               /\ resp' = TemplateResponse("teachers/pupils.html",
                      [teachers |-> TeachersOf(contest),
                       pupils |-> PupilsOf(contest),
                       registration_config |-> config,
                       registration_link |-> <<contest, config.key>>,
                       other_contests |-> OtherContests(user, contest)])

activate_pupil_view(user, contest, key, is_teacher, register_as) ==
    /\ req' = [view |-> "activate_pupil_view", user |-> user,
               contest |-> contest, key |-> key, is_teacher |-> is_teacher,
               register_as |-> register_as]
    /\ outbox' = <<>>
    /\ UNCHANGED <<contestVars, teacherVars, registrationConfig, retiredKeys, lastSet>>
    /\ LET config == registrationConfig[contest]
           as == RegisterAs(is_teacher, register_as)
       IN CASE user = Anonymous ->
                 /\ resp' = RedirectToLogin
                 /\ messages' = <<>>
                 /\ UNCHANGED <<pupils, contestTeachers>>
            [] user # Anonymous /\ ~config.exists ->
                 /\ resp' = Http404
                 /\ messages' = <<>>
                 /\ UNCHANGED <<pupils, contestTeachers>>
            [] user # Anonymous /\ config.exists
                    /\ ~MayActivate(config, key) ->
                 /\ resp' = TemplateResponse("teachers/activation_error.html",
                        [key_ok |-> KeyOk(config, key),
                         registration_active |-> config.is_active])
                 /\ messages' = <<>>
                 /\ UNCHANGED <<pupils, contestTeachers>>
            [] user # Anonymous /\ config.exists
                    /\ MayActivate(config, key) ->
                 CASE as = NoParam ->
                        /\ resp' = TemplateResponse(
                               "teachers/activation_type.html", [key |-> key])
                        /\ messages' = <<>>
                        /\ UNCHANGED <<pupils, contestTeachers>>
                   [] as = "pupil" ->
                        IF Rows(pupils, <<contest, user>>) > 1
                        THEN /\ resp' = ServerError("MultipleObjectsReturned")
                             /\ messages' = <<>>
                             /\ UNCHANGED <<pupils, contestTeachers>>
                        ELSE /\ pupils' = GetOrCreate(pupils, <<contest, user>>)
                             /\ messages' = <<[level |-> "info",
                                    text |-> "Activation successful."]>>
                             /\ resp' = Redirect("default_contest_view",
                                    [contest_id |-> contest])
                             /\ UNCHANGED contestTeachers
                   [] as = "teacher" ->
                        \* get_object_or_404(Teacher, user=request.user), then
                        \* ContestTeacher.get_or_create: the model class has
                        \* no such attribute (its manager has)
                        /\ resp' = CASE TeacherRows(user) = {} -> Http404
                                     [] Cardinality(TeacherRows(user)) > 1 ->
                                          ServerError("MultipleObjectsReturned")
                                     [] OTHER -> ServerError("AttributeError")
                        /\ messages' = <<>>
                        /\ UNCHANGED <<pupils, contestTeachers>>
                   [] OTHER ->
                        /\ resp' = SuspiciousOperation
                        /\ messages' = <<>>
                        /\ UNCHANGED <<pupils, contestTeachers>>

set_registration_view(user, contest, is_admin, value) ==
    /\ req' = [view |-> "set_registration_view", user |-> user,
               contest |-> contest, is_admin |-> is_admin, value |-> value]
    /\ messages' = <<>>
    /\ outbox' = <<>>
    /\ UNCHANGED <<contestVars, teacherVars, pupils, contestTeachers, retiredKeys>>
    /\ CASE ~is_admin ->
              /\ resp' = PermissionDenied
              /\ UNCHANGED <<registrationConfig, lastSet>>
         [] is_admin /\ ~registrationConfig[contest].exists ->
              /\ resp' = Http404
              /\ UNCHANGED <<registrationConfig, lastSet>>
         [] OTHER ->
              /\ registrationConfig' = [registrationConfig EXCEPT
                     ![contest].is_active = StoredActive(value)]
              /\ lastSet' = [lastSet EXCEPT
                     ![contest] = IF value THEN "active" ELSE "inactive"]
              /\ resp' = Redirect("pupils_view", [contest_id |-> contest])

regenerate_key_view(user, contest, is_admin) ==
    /\ req' = [view |-> "regenerate_key_view", user |-> user,
               contest |-> contest, is_admin |-> is_admin]
    /\ messages' = <<>>
    /\ outbox' = <<>>
    /\ UNCHANGED <<contestVars, teacherVars, pupils, contestTeachers, lastSet>>
    /\ CASE ~is_admin ->
              /\ resp' = PermissionDenied
              /\ UNCHANGED <<registrationConfig, retiredKeys>>
         [] is_admin /\ ~registrationConfig[contest].exists ->
              /\ resp' = Http404
              /\ UNCHANGED <<registrationConfig, retiredKeys>>
         [] OTHER ->
              LET old == registrationConfig[contest]
                  new == Regenerated(old)
              IN /\ old.key < MaxKeys
                 /\ registrationConfig' =
                        [registrationConfig EXCEPT ![contest] = new]
                 /\ retiredKeys' = [retiredKeys EXCEPT ![contest] =
                        IF new.key # old.key THEN @ \cup {old.key} ELSE @]
                 /\ resp' = Redirect("pupils_view", [contest_id |-> contest])

\* an id that names no Contest
NoSuchContest == "c9"

\* lines 183-185: one Pupil.objects.get_or_create(contest=request.contest,
\* user=p.user) for every row p of Pupil.objects.filter(contest=other_contest)
RECURSIVE BulkAddPupils(_, _, _)
BulkAddPupils(table, contest, users) ==
    IF users = {}
    THEN table
    ELSE LET u == CHOOSE x \in users : TRUE
         IN BulkAddPupils(GetOrCreate(table, <<contest, u>>), contest,
                          users \ {u})

\* bulk_add_pupils_view, lines 178-189. is_admin is the decorator's
\* is_contest_admin(request), other_admin is line 181's
\* has_perm('contests.contest_admin', other_contest). The pupils are copied
\* first, each get_or_create being committed as it is made. The loop of
\* lines 186-188 then reads ct.user of a ContestTeacher row, whose fields
\* are contest and teacher (lines 102, 110, 139-140): with a contest teacher
\* in the other contest its first iteration raises AttributeError and no
\* ContestTeacher row is made.
bulk_add_pupils_view(user, contest, is_admin, other_contest_id, other_admin) ==
    /\ req' = [view |-> "bulk_add_pupils_view", user |-> user,
               contest |-> contest, is_admin |-> is_admin,
               other_contest_id |-> other_contest_id,
               other_admin |-> other_admin]
    /\ messages' = <<>>
    /\ outbox' = <<>>
    /\ UNCHANGED <<contestVars, teacherVars, registrationConfig, retiredKeys,
                   lastSet, contestTeachers>>
    /\ CASE ~is_admin ->
              /\ resp' = PermissionDenied
              /\ UNCHANGED pupils
         [] is_admin /\ other_contest_id \notin Contests ->
              /\ resp' = Http404
              /\ UNCHANGED pupils
         [] is_admin /\ other_contest_id \in Contests /\ ~other_admin ->
              /\ resp' = PermissionDenied
              /\ UNCHANGED pupils
         [] OTHER ->
              /\ pupils' = BulkAddPupils(pupils, contest,
                               PupilsOf(other_contest_id))
              /\ resp' = IF TeachersOf(other_contest_id) # {}
                         THEN ServerError("AttributeError")
                         ELSE Redirect("pupils_view", [contest_id |-> contest])

----------------------------------------------------------------------------
(* The registration flow: tables as the other views of the site leave them. *)

NoRows == [k \in Contests \X Users |-> 0]

TeacherRow(u, active, school) ==
    [user |-> u, is_active |-> active, school |-> school]

InitRegistration ==
    /\ req = [view |-> "none"]
    /\ resp = [kind |-> "none"]
    /\ messages = <<>>
    /\ outbox = <<>>
    /\ submissions = <<>>
    /\ reports = <<>>
    /\ statements = <<>>
    /\ acceptMails = [u \in Users |-> 0]
    /\ inflight = [w \in Workers |-> Idle]
    /\ \E withTeacher \in BOOLEAN, teaches \in BOOLEAN :
          /\ teachers = IF withTeacher
                        THEN <<TeacherRow("u1", TRUE, "s1")>> ELSE <<>>
          /\ contestTeachers = IF withTeacher /\ teaches
                               THEN [NoRows EXCEPT ![<<"c2", "u1">>] = 1]
                               ELSE NoRows
    /\ \E config \in {NoConfig, NewRegistrationConfig} :
          registrationConfig =
              [c \in Contests |-> IF c \in FlowContests THEN config ELSE NoConfig]
    /\ \E others \in SUBSET Users :
          pupils = [k \in Contests \X Users |->
                       IF k[1] \notin FlowContests /\ k[2] \in others
                       THEN 1 ELSE 0]
    /\ retiredKeys = [c \in Contests |-> {}]
    /\ lastSet = [c \in Contests |-> "none"]

Next ==
    \/ \E u \in Users, c \in FlowContests, a \in BOOLEAN : pupils_view(u, c, a)
    \/ \E u \in Users \cup {Anonymous}, c \in FlowContests, k \in Keys,
          t \in BOOLEAN, r \in RegisterAsValues :
          activate_pupil_view(u, c, k, t, r)
    \/ \E u \in Users, c \in FlowContests, a \in BOOLEAN, v \in BOOLEAN :
          set_registration_view(u, c, a, v)
    \/ \E u \in Users, c \in FlowContests, a \in BOOLEAN :
          regenerate_key_view(u, c, a)
    \/ \E u \in Users, c \in FlowContests, a \in BOOLEAN,
          o \in Contests \cup {NoSuchContest} :
          \* an admin of a contest holds contest-admin permission on it
          \E p \in IF o = c THEN {a} ELSE BOOLEAN :
             bulk_add_pupils_view(u, c, a, o, p)

Spec == InitRegistration /\ [][Next]_vars

----------------------------------------------------------------------------
(* Properties of the registration flow.                                    *)

\* the step is a request to activate_pupil_view by a logged-in user
ActivateStep == req'.view = "activate_pupil_view" /\ req'.user # Anonymous

\* no Pupil and no ContestTeacher row is created or deleted by the step
NoRecordCreated == pupils' = pupils /\ contestTeachers' = contestTeachers

\* the key of the request is the contest's key and its registration is active
ValidActivation ==
    LET config == registrationConfig[req'.contest]
    IN config.exists /\ config.key = req'.key /\ config.is_active

\* C8: activate_pupil_view creates a Pupil or ContestTeacher row only when
\* the key of the request is the contest's current registration key and the
\* registration is active; with a wrong key or an inactive registration it
\* creates nothing and renders the activation-error page, which reports the
\* two conditions; without a RegistrationConfig it raises not found.
C8_ActivationNeedsKeyAndActive ==
    [][ActivateStep =>
        LET config == registrationConfig[req'.contest]
        IN /\ ~NoRecordCreated => ValidActivation
           /\ config.exists /\ ~ValidActivation =>
                 /\ NoRecordCreated
                 /\ resp' = TemplateResponse("teachers/activation_error.html",
                        [key_ok |-> config.key = req'.key,
                         registration_active |-> config.is_active])
           /\ ~config.exists => NoRecordCreated /\ resp' = Http404]_vars

\* C8 witness: after somebody registered, registration was closed and an
\* activation with the right key got the error page
C8_Witness ==
    /\ req.view = "activate_pupil_view"
    /\ resp.kind = "template"
    /\ resp.template = "teachers/activation_error.html"
    /\ resp.context.key_ok
    /\ ~resp.context.registration_active
    /\ PupilsOf(req.contest) # {}
    /\ req.user \notin PupilsOf(req.contest)

\* C9: once regenerate_key_view has replaced a key by a different one, an
\* activation carrying the replaced key registers nobody; and from a
\* set_registration_view storing 'inactive' until one storing 'active', no
\* activation registers anybody.
C9_OldKeyAndClosedRegistrationRegisterNobody ==
    [][ActivateStep
        /\ (\/ req'.key \in retiredKeys[req'.contest]
            \/ lastSet[req'.contest] = "inactive")
        => NoRecordCreated]_vars

\* C9 witness: a key that had registered a pupil was regenerated, and the
\* old key was then refused while registration was open
C9_Witness ==
    /\ req.view = "activate_pupil_view"
    /\ req.user # Anonymous
    /\ req.key \in retiredKeys[req.contest]
    /\ lastSet[req.contest] = "active"
    /\ PupilsOf(req.contest) # {}
    /\ resp = TemplateResponse("teachers/activation_error.html",
           [key_ok |-> FALSE, registration_active |-> TRUE])

\* C10: with a valid key and an active registration, a user without the
\* teacher permission is registered as a pupil whatever register_as says and
\* never gets a ContestTeacher row; a user with the permission and no
\* register_as gets the activation-type page and no row; a user with the
\* permission and a register_as other than 'pupil' or 'teacher' gets
\* SuspiciousOperation and no row.
C10_RegisterAsRules ==
    [][ActivateStep /\ ValidActivation =>
        LET who == <<req'.contest, req'.user>>
        IN /\ ~req'.is_teacher =>
                 /\ pupils'[who] = 1
                 /\ \A k \in DOMAIN pupils : k # who => pupils'[k] = pupils[k]
                 /\ contestTeachers' = contestTeachers
                 /\ resp' = Redirect("default_contest_view",
                        [contest_id |-> req'.contest])
           /\ req'.is_teacher /\ req'.register_as = NoParam =>
                 /\ NoRecordCreated
                 /\ resp' = TemplateResponse("teachers/activation_type.html",
                        [key |-> req'.key])
           /\ req'.is_teacher
              /\ req'.register_as \notin {NoParam, "pupil", "teacher"} =>
                 /\ NoRecordCreated
                 /\ resp' = SuspiciousOperation]_vars

\* C10 witness: a user without the teacher permission asked to be registered
\* as a teacher and is a pupil
C10_Witness ==
    /\ req.view = "activate_pupil_view"
    /\ ~req.is_teacher
    /\ req.register_as = "teacher"
    /\ resp.kind = "redirect"
    /\ resp.to = "default_contest_view"
    /\ pupils[<<req.contest, req.user>>] = 1
    /\ contestTeachers[<<req.contest, req.user>>] = 0

\* C11: activate_pupil_view with a valid key, an active registration, a user
\* holding the teacher permission and register_as = 'teacher': if the user
\* has a Teacher record, a ContestTeacher row linking that teacher to the
\* contest exists after the request, 'Activation successful.' is reported and
\* the response redirects to the contest's default view; if the user has no
\* Teacher record, the request ends in not found and no row is created.
C11_TeacherActivationLinksTeacher ==
    [][ActivateStep /\ ValidActivation
        /\ req'.is_teacher /\ req'.register_as = "teacher" =>
        IF TeacherRows(req'.user) # {}
        THEN /\ contestTeachers'[<<req'.contest, req'.user>>] >= 1
             /\ messages' = <<[level |-> "info",
                    text |-> "Activation successful."]>>
             /\ resp' = Redirect("default_contest_view",
                    [contest_id |-> req'.contest])
        ELSE /\ resp' = Http404
             /\ NoRecordCreated]_vars

\* the step is a bulk_add_pupils_view request by an admin of its contest
BulkAddStep == req'.view = "bulk_add_pupils_view" /\ req'.is_admin

\* C13: bulk_add_pupils_view by an admin of the current contest: an unknown
\* other contest gives not found, and a requester without contest-admin
\* permission on the other contest gets PermissionDenied, both without any
\* change of a record; otherwise the request succeeds, every pupil and every
\* contest teacher of the other contest is a pupil / contest teacher of the
\* current contest afterwards, the members the current contest had are kept,
\* and the other contest's pupils and teachers are unchanged.
C13_BulkAddCopiesPupilsAndTeachers ==
    [][BulkAddStep =>
        LET current == req'.contest
            other == req'.other_contest_id
        IN /\ other \notin Contests => resp' = Http404 /\ NoRecordCreated
           /\ other \in Contests /\ ~req'.other_admin =>
                 resp' = PermissionDenied /\ NoRecordCreated
           /\ other \in Contests /\ req'.other_admin =>
                 /\ resp' = Redirect("pupils_view", [contest_id |-> current])
                 /\ \A u \in Users :
                       /\ pupils[<<other, u>>] > 0 =>
                             pupils'[<<current, u>>] > 0
                       /\ contestTeachers[<<other, u>>] > 0 =>
                             contestTeachers'[<<current, u>>] > 0
                       /\ pupils[<<current, u>>] > 0 =>
                             pupils'[<<current, u>>] > 0
                       /\ contestTeachers[<<current, u>>] > 0 =>
                             contestTeachers'[<<current, u>>] > 0
                       /\ pupils'[<<other, u>>] = pupils[<<other, u>>]
                       /\ contestTeachers'[<<other, u>>] =
                             contestTeachers[<<other, u>>]]_vars

----------------------------------------------------------------------------
(* activate_pupil_view and bulk_add_pupils_view served by several workers  *)
(* at once. A get_or_create of lines 135-136 and 184-185 is two            *)
(* statements, the SELECT and, when it found no row, the INSERT; the       *)
(* database serialises the single statements.                              *)

MaxPupilWorkers == 2
PupilWorkers == 1..MaxPupilWorkers

\* a worker that serves no request
IdlePupilWorker ==
    [pc |-> "idle", view |-> "-", contest |-> "-", other |-> "-",
     todo |-> {}, user |-> "-", integrity_error |-> FALSE, resp |-> "-"]

\* an INSERT into a table whose rows are not kept unique
InsertRowUnconstrained(table, key) == [table EXCEPT ![key] = @ + 1]

\* an INSERT into Pupil, whose rows are unique per contest and user: a
\* second row for the key is refused with IntegrityError
InsertRow(table, key) ==
    IF table[key] = 0 THEN [table EXCEPT ![key] = 1] ELSE table

\* what a request answers once its pupils are registered: lines 143-144 of
\* activate_pupil_view, lines 186-189 of bulk_add_pupils_view
PupilsRegistered(mine) ==
    IF mine.view = "activate_pupil_view"
    THEN Redirect("default_contest_view", [contest_id |-> mine.contest])
    ELSE IF TeachersOf(mine.other) # {}
         THEN ServerError("AttributeError")
         ELSE Redirect("pupils_view", [contest_id |-> mine.contest])

\* the worker goes on after the get_or_create for user u returned
NextPupil(mine, u) ==
    IF mine.todo \ {u} = {}
    THEN [mine EXCEPT !.pc = "done", !.todo = {}, !.user = "-",
                      !.resp = PupilsRegistered(mine)]
    ELSE [mine EXCEPT !.pc = "get", !.todo = @ \ {u}, !.user = "-"]

\* activate_pupil_view up to line 134, for the requests that reach line 135
activate_pupil_begin(w, user, contest, key, is_teacher, register_as) ==
    /\ inflight[w].pc \in {"idle", "done"}
    /\ user # Anonymous
    /\ registrationConfig[contest].exists
    /\ MayActivate(registrationConfig[contest], key)
    /\ RegisterAs(is_teacher, register_as) = "pupil"
    /\ inflight' = [inflight EXCEPT ![w] =
           [IdlePupilWorker EXCEPT !.pc = "get",
               !.view = "activate_pupil_view", !.contest = contest,
               !.todo = {user}]]
    /\ UNCHANGED <<req, resp, messages, outbox, contestVars, teachers,
                   acceptMails, registrationVars>>

\* bulk_add_pupils_view up to line 183, for the requests that reach it: the
\* queryset of line 183 is read when the loop starts
bulk_add_pupils_begin(w, contest, is_admin, other_contest_id, other_admin) ==
    /\ inflight[w].pc \in {"idle", "done"}
    /\ is_admin
    /\ other_contest_id \in Contests
    /\ other_admin
    /\ LET mine == [IdlePupilWorker EXCEPT
                       !.view = "bulk_add_pupils_view", !.contest = contest,
                       !.other = other_contest_id,
                       !.todo = PupilsOf(other_contest_id)]
       IN inflight' = [inflight EXCEPT ![w] =
              IF mine.todo = {}
              THEN [mine EXCEPT !.pc = "done", !.resp = PupilsRegistered(mine)]
              ELSE [mine EXCEPT !.pc = "get"]]
    /\ UNCHANGED <<req, resp, messages, outbox, contestVars, teachers,
                   acceptMails, registrationVars>>

\* the SELECT of a get_or_create, for one of the users still to register
get_or_create_get(w) ==
    /\ inflight[w].pc = "get"
    /\ \E u \in inflight[w].todo :
          LET mine == inflight[w]
              found == Rows(pupils, <<mine.contest, u>>)
          IN inflight' = [inflight EXCEPT ![w] =
                 CASE found > 1 ->
                        [mine EXCEPT !.pc = "done", !.resp =
                            ServerError("MultipleObjectsReturned")]
                   [] found = 1 -> NextPupil(mine, u)
                   [] OTHER -> [mine EXCEPT !.pc = "create", !.user = u]]
    /\ UNCHANGED <<req, resp, messages, outbox, contestVars, teachers,
                   acceptMails, registrationVars>>

\* the INSERT of a get_or_create that found no row; on IntegrityError
\* get_or_create returns the row that is there
get_or_create_create(w) ==
    /\ inflight[w].pc = "create"
    /\ LET mine == inflight[w]
           key == <<mine.contest, mine.user>>
           table == InsertRow(pupils, key)
       IN /\ pupils' = table
          /\ inflight' = [inflight EXCEPT ![w] =
                 [NextPupil(mine, mine.user) EXCEPT !.integrity_error =
                     mine.integrity_error \/ table = pupils]]
    /\ UNCHANGED <<req, resp, messages, outbox, contestVars, teachers,
                   acceptMails, registrationConfig, contestTeachers,
                   retiredKeys, lastSet>>

InitPupilRace ==
    /\ req = [view |-> "none"]
    /\ resp = [kind |-> "none"]
    /\ messages = <<>>
    /\ outbox = <<>>
    /\ submissions = <<>>
    /\ reports = <<>>
    /\ statements = <<>>
    /\ acceptMails = [u \in Users |-> 0]
    /\ inflight = [w \in PupilWorkers |-> IdlePupilWorker]
    /\ teachers = <<TeacherRow("u1", TRUE, "s1")>>
    /\ \E teaches \in BOOLEAN :
          contestTeachers = IF teaches
                            THEN [NoRows EXCEPT ![<<"c2", "u1">>] = 1]
                            ELSE NoRows
    /\ registrationConfig =
          [c \in Contests |-> IF c \in FlowContests
                              THEN NewRegistrationConfig ELSE NoConfig]
    /\ \E others \in SUBSET Users :
          pupils = [k \in Contests \X Users |->
                       IF k[1] \notin FlowContests /\ k[2] \in others
                       THEN 1 ELSE 0]
    /\ retiredKeys = [c \in Contests |-> {}]
    /\ lastSet = [c \in Contests |-> "none"]

NextPupilRace ==
    \/ \E w \in PupilWorkers, u \in Users, c \in FlowContests, k \in Keys,
          t \in BOOLEAN, r \in RegisterAsValues :
          activate_pupil_begin(w, u, c, k, t, r)
    \/ \E w \in PupilWorkers, c \in FlowContests, a \in BOOLEAN,
          o \in Contests \cup {NoSuchContest} :
          \E p \in IF o = c THEN {a} ELSE BOOLEAN :
             bulk_add_pupils_begin(w, c, a, o, p)
    \/ \E w \in PupilWorkers : get_or_create_get(w)
    \/ \E w \in PupilWorkers : get_or_create_create(w)

SpecPupilRace == InitPupilRace /\ [][NextPupilRace]_vars

----------------------------------------------------------------------------
(* teachers/views.py: requesting and accepting a teacher account.          *)

\* a Teacher row as its model creates it: not accepted yet
NewTeacher(u, school) == TeacherRow(u, FALSE, school)

\* lines 68-71 never finding the row
InstanceNone(user) == 0

\* add_teacher_view, lines 68-71: the pk of the user's Teacher row, 0 for None
\* (called when the user has at most one)
Instance(user) ==
    IF TeacherRows(user) = {} THEN 0 ELSE CHOOSE i \in TeacherRows(user) : TRUE

\* send_request_email: one message to settings.MANAGERS
RequestEmail(pk, user) ==
    [kind |-> "request", to |-> "MANAGERS", reply_to |-> user, teacher |-> pk]

\* send_acceptance_email: teacher.user.email_user(subject, body)
AcceptanceEmail(pk, user) ==
    [kind |-> "acceptance", to |-> user, reply_to |-> "-", teacher |-> pk]

\* the form a view puts in its template context
Form(bound, instance) == [form |-> [bound |-> bound, instance |-> instance]]

add_teacher_view(user, method, form_valid, school) ==
    /\ req' = [view |-> "add_teacher_view", user |-> user, method |-> method,
               form_valid |-> form_valid, school |-> school]
    /\ messages' = <<>>
    /\ UNCHANGED <<contestVars, acceptMails, inflight, registrationVars>>
    /\ CASE user = Anonymous ->
              /\ resp' = RedirectToLogin
              /\ outbox' = <<>>
              /\ UNCHANGED teachers
         [] user # Anonymous /\ Cardinality(TeacherRows(user)) > 1 ->
              /\ resp' = ServerError("MultipleObjectsReturned")
              /\ outbox' = <<>>
              /\ UNCHANGED teachers
         [] OTHER ->
              LET instance == Instance(user)
              IN IF method = "POST" /\ form_valid
                 THEN LET pk == IF instance = 0
                                THEN Len(teachers) + 1 ELSE instance
                      IN /\ pk <= MaxTeacherRows
                         /\ teachers' = IF instance = 0
                               THEN Append(teachers, NewTeacher(user, school))
                               ELSE [teachers EXCEPT ![pk].school = school]
                         /\ outbox' = <<RequestEmail(pk, user)>>
                         /\ resp' = TemplateResponse(
                                "teachers/request_sent.html", <<>>)
                 ELSE /\ resp' = TemplateResponse("teachers/request.html",
                             Form(method = "POST", instance))
                      /\ outbox' = <<>>
                      /\ UNCHANGED teachers

\* accept_teacher_view, line 90
AlreadyAccepted(teacher) == teacher.is_active

accept_teacher_view(is_superuser, user_id) ==
    /\ req' = [view |-> "accept_teacher_view", is_superuser |-> is_superuser,
               user_id |-> user_id]
    /\ UNCHANGED <<contestVars, inflight, registrationVars>>
    /\ CASE ~is_superuser ->
              /\ resp' = RedirectToLogin
              /\ messages' = <<>>
              /\ outbox' = <<>>
              /\ UNCHANGED <<teachers, acceptMails>>
         [] is_superuser /\ user_id \notin Users ->
              /\ resp' = Http404
              /\ messages' = <<>>
              /\ outbox' = <<>>
              /\ UNCHANGED <<teachers, acceptMails>>
         [] is_superuser /\ user_id \in Users
                 /\ Cardinality(TeacherRows(user_id)) > 1 ->
              /\ resp' = ServerError("MultipleObjectsReturned")
              /\ messages' = <<>>
              /\ outbox' = <<>>
              /\ UNCHANGED <<teachers, acceptMails>>
         [] OTHER ->
              \* Teacher.objects.get_or_create(user=user)
              LET created == TeacherRows(user_id) = {}
                  table == IF created
                           THEN Append(teachers, NewTeacher(user_id, ""))
                           ELSE teachers
                  pk == IF created THEN Len(table)
                        ELSE CHOOSE i \in TeacherRows(user_id) : TRUE
              IN /\ pk <= MaxTeacherRows
                 /\ resp' = Redirect(
                        "oioioiadmin:teachers_teacher_changelist", <<>>)
                 /\ IF AlreadyAccepted(table[pk])
                    THEN /\ teachers' = table
                         /\ messages' = <<[level |-> "info",
                                text |-> "User already accepted."]>>
                         /\ outbox' = <<>>
                         /\ UNCHANGED acceptMails
                    ELSE /\ teachers' = [table EXCEPT ![pk].is_active = TRUE]
                         /\ acceptMails' =
                                [acceptMails EXCEPT ![user_id] = @ + 1]
                         /\ outbox' = <<AcceptanceEmail(pk, user_id)>>
                         /\ messages' = <<[level |-> "success", text |->
                             "Successfully accepted and emailed the new teacher."]>>

InitTeachers ==
    /\ req = [view |-> "none"]
    /\ resp = [kind |-> "none"]
    /\ messages = <<>>
    /\ outbox = <<>>
    /\ submissions = <<>>
    /\ reports = <<>>
    /\ statements = <<>>
    /\ teachers = <<>>
    /\ acceptMails = [u \in Users |-> 0]
    /\ inflight = [w \in Workers |-> Idle]
    /\ registrationConfig = [c \in Contests |-> NoConfig]
    /\ pupils = NoRows
    /\ contestTeachers = NoRows
    /\ retiredKeys = [c \in Contests |-> {}]
    /\ lastSet = [c \in Contests |-> "none"]

NextTeachers ==
    \/ \E u \in Users \cup {Anonymous}, m \in {"GET", "POST"},
          v \in BOOLEAN, s \in Schools : add_teacher_view(u, m, v, s)
    \/ \E su \in BOOLEAN, id \in Users \cup {NoSuchUser} :
          accept_teacher_view(su, id)

SpecTeachers == InitTeachers /\ [][NextTeachers]_vars

----------------------------------------------------------------------------
(* accept_teacher_view served by several workers at once: a request is     *)
(* lines 88-89 (the reads), then lines 90-97 (the test of the row read,    *)
(* the save and the mail); the database serialises the single statements.  *)

accept_begin(w, user_id) ==
    /\ inflight[w].pc = "idle"
    /\ user_id \in Users
    /\ LET created == TeacherRows(user_id) = {}
           table == IF created
                    THEN Append(teachers, NewTeacher(user_id, ""))
                    ELSE teachers
           pk == IF created THEN Len(table)
                 ELSE CHOOSE i \in TeacherRows(user_id) : TRUE
       IN /\ pk <= MaxTeacherRows
          /\ teachers' = table
          /\ inflight' = [inflight EXCEPT ![w] =
                 [pc |-> "read", user_id |-> user_id, pk |-> pk,
                  is_active |-> table[pk].is_active, message |-> "-"]]
    /\ UNCHANGED <<req, resp, messages, outbox, contestVars, acceptMails,
                   registrationVars>>

accept_finish(w) ==
    /\ inflight[w].pc = "read"
    /\ LET mine == inflight[w]
       IN IF AlreadyAccepted(mine)
          THEN /\ inflight' = [inflight EXCEPT ![w].pc = "done",
                      ![w].message = "User already accepted."]
               /\ UNCHANGED <<teachers, acceptMails>>
          ELSE /\ teachers' = [teachers EXCEPT ![mine.pk].is_active = TRUE]
               /\ acceptMails' = [acceptMails EXCEPT ![mine.user_id] = @ + 1]
               /\ inflight' = [inflight EXCEPT ![w].pc = "done", ![w].message =
                      "Successfully accepted and emailed the new teacher."]
    /\ UNCHANGED <<req, resp, messages, outbox, contestVars, registrationVars>>

NextAcceptRace ==
    \/ \E w \in Workers, id \in Users : accept_begin(w, id)
    \/ \E w \in Workers : accept_finish(w)

SpecAcceptRace == InitTeachers /\ [][NextAcceptRace]_vars

----------------------------------------------------------------------------
(* Properties of the teacher accounts.                                     *)

\* C3: over any sequence and any interleaving of accept_teacher_view
\* requests for one user, at most one acceptance email is sent to that user.
C3_AtMostOneAcceptanceEmail == \A u \in Users : acceptMails[u] <= 1

\* the step is a request to add_teacher_view by a logged-in user
AddTeacherStep == req'.view = "add_teacher_view" /\ req'.user # Anonymous

\* C4: a valid POST to add_teacher_view by a logged-in user saves a Teacher
\* row owned by that user and sends exactly one request email to the
\* managers; a user who has a row gets it updated and no second one; there
\* is at most one Teacher row per user and no row ever changes its owner; an
\* invalid POST or a GET saves nothing and sends no email.
C4_AddTeacherSavesOneRowAndMailsOnce ==
    [][/\ AddTeacherStep /\ req'.method = "POST" /\ req'.form_valid =>
             /\ \E pk \in DOMAIN teachers' :
                   /\ teachers'[pk].user = req'.user
                   /\ teachers'[pk].school = req'.school
                   /\ outbox' = <<RequestEmail(pk, req'.user)>>
             /\ TeacherRows(req'.user) # {} => Len(teachers') = Len(teachers)
       /\ AddTeacherStep /\ ~(req'.method = "POST" /\ req'.form_valid) =>
             teachers' = teachers /\ outbox' = <<>>
       /\ \A u \in Users :
             Cardinality({i \in DOMAIN teachers' : teachers'[i].user = u}) <= 1
       /\ \A pk \in DOMAIN teachers :
             pk \in DOMAIN teachers' /\ teachers'[pk].user = teachers[pk].user
      ]_vars

\* C4 witness: an accepted teacher sent the request form again; the row was
\* updated and is still the only one of that user
C4_Witness ==
    /\ req.view = "add_teacher_view"
    /\ resp = TemplateResponse("teachers/request_sent.html", <<>>)
    /\ Len(outbox) = 1
    /\ Cardinality(TeacherRows(req.user)) = 1
    /\ \E pk \in TeacherRows(req.user) :
          /\ teachers[pk].is_active
          /\ teachers[pk].school = req.school
          /\ teachers[pk].school = "s2"
          /\ pk = 2

----------------------------------------------------------------------------
(* contests/views.py.  The tables the views only read are fixed: two       *)
(* contests, three problems of which one is in both contests and one in    *)
(* none, and an attachment of each.                                        *)

ProblemInstances ==
    {[id |-> "pi1", contest |-> "c1", problem |-> "p1", short_name |-> "a"],
     [id |-> "pi2", contest |-> "c1", problem |-> "p2", short_name |-> "b"],
     [id |-> "pi3", contest |-> "c2", problem |-> "p2", short_name |-> "a"]}

ProblemInstancesOf(contest) == {pi \in ProblemInstances : pi.contest = contest}

ProblemAttachments ==
    {[id |-> 1, problem |-> "p1", content |-> "file1"],
     [id |-> 2, problem |-> "p2", content |-> "file2"],
     [id |-> 3, problem |-> "p3", content |-> "file3"]}

\* attachment ids a request can name: those of the table and one of no row
AttachmentIds == {1, 2, 3, 4}

Methods == {"GET", "POST"}
Kinds == {"NORMAL", "IGNORED"}
\* kinds a request can name: those above and one no controller knows
RequestedKinds == Kinds \cup {"BOGUS"}
Statuses == {"ACTIVE", "INACTIVE"}

\* stream_file(content)
StreamFile(content) == [kind |-> "stream", file |-> content]

\* require_POST answers another method with 405
HttpResponseNotAllowed == [kind |-> "HttpResponseNotAllowed"]

\* the SubmissionForm a view puts in its template context
SubmissionForm(bound, data) == [form |-> [bound |-> bound, data |-> data]]

\* controller.create_submission(request, problem_instance, cleaned_data)
create_submission(table, problem_instance) ==
    Append(table, [problem_instance |-> problem_instance, kind |-> "NORMAL"])

\* controller.change_submission_kind(submission, kind)
change_submission_kind(table, id, kind) == [table EXCEPT ![id].kind = kind]

\* get_submission_or_404(request, contest_id, submission_id): whether the
\* submission is there, in this contest
SubmissionExists(contest, id) ==
    /\ id \in DOMAIN submissions
    /\ \E pi \in ProblemInstancesOf(contest) :
          pi.id = submissions[id].problem_instance

\* lines 87-89 without form.is_valid()
SubmitAcceptedAnyPost(method, form_valid) == method = "POST"

\* submit_view, lines 87-89: the form was posted and is valid
SubmitAccepted(method, form_valid) == method = "POST" /\ form_valid

submit_view(contest, can_enter, submittable, method, form_valid, pi) ==
    /\ req' = [view |-> "submit_view", contest |-> contest,
               can_enter |-> can_enter, submittable |-> submittable,
               method |-> method, form_valid |-> form_valid,
               problem_instance |-> pi]
    /\ messages' = <<>>
    /\ outbox' = <<>>
    /\ UNCHANGED <<reports, statements, teacherVars, registrationVars>>
    /\ CASE ~can_enter ->
              /\ resp' = PermissionDenied
              /\ UNCHANGED submissions
         [] can_enter /\ ~submittable ->
              /\ resp' = TemplateResponse("contests/nothing_to_submit.html",
                     <<>>)
              /\ UNCHANGED submissions
         [] can_enter /\ submittable /\ SubmitAccepted(method, form_valid) ->
              /\ Len(submissions) < MaxSubmissions
              /\ submissions' = create_submission(submissions, pi)
              /\ resp' = Redirect("my_submissions", [contest_id |-> contest])
         [] OTHER ->
              /\ resp' = TemplateResponse("contests/submit.html",
                     IF method = "POST" THEN SubmissionForm(TRUE, pi)
                     ELSE SubmissionForm(FALSE, "-"))
              /\ UNCHANGED submissions

\* line 157 without the test
KindIsValidAlways(kind, valid_kinds) == TRUE

\* change_submission_kind_view, line 157
KindIsValid(kind, valid_kinds) == kind \in valid_kinds

change_submission_kind_view(contest, is_admin, method, id, kind, valid_kinds) ==
    /\ req' = [view |-> "change_submission_kind_view", contest |-> contest,
               is_admin |-> is_admin, method |-> method,
               submission_id |-> id, kind |-> kind,
               valid_kinds |-> valid_kinds]
    /\ outbox' = <<>>
    /\ UNCHANGED <<reports, statements, teacherVars, registrationVars>>
    /\ CASE ~is_admin ->
              /\ resp' = PermissionDenied
              /\ messages' = <<>>
              /\ UNCHANGED submissions
         [] is_admin /\ method # "POST" ->
              /\ resp' = HttpResponseNotAllowed
              /\ messages' = <<>>
              /\ UNCHANGED submissions
         [] is_admin /\ method = "POST" /\ ~SubmissionExists(contest, id) ->
              /\ resp' = Http404
              /\ messages' = <<>>
              /\ UNCHANGED submissions
         [] OTHER ->
              /\ resp' = Redirect("submission",
                     [contest_id |-> contest, submission_id |-> id])
              /\ IF KindIsValid(kind, valid_kinds)
                 THEN /\ submissions' =
                            change_submission_kind(submissions, id, kind)
                      /\ messages' = <<[level |-> "success",
                             text |-> "Submission kind has been changed."]>>
                 ELSE /\ messages' = <<[level |-> "error", text |->
                             <<kind, "is not valid kind for submission", id>>]>>
                      /\ UNCHANGED submissions

\* SubmissionReport.objects.filter(submission=submission)
ReportsOf(id) == {r \in DOMAIN reports : reports[r].submission = id}

\* queryset.filter(status='ACTIVE')
ActiveOnly(queryset) == {r \in queryset : reports[r].status = "ACTIVE"}

\* controller.filter_visible_reports(request, submission, queryset): the
\* reports of the queryset that the controller shows to this request
filter_visible_reports(visible, queryset) == queryset \cap visible

\* submission_view, lines 119-124
RenderedReports(id, visible) ==
    filter_visible_reports(visible, ActiveOnly(ReportsOf(id)))

\* lines 126-128 without is_contest_admin
AllReportsForAnybody(is_admin, id, visible) ==
    filter_visible_reports(visible, ReportsOf(id))

\* submission_view, lines 126-128: X and Y or [] is [] when X is false or Y
\* is empty
AllReports(is_admin, id, visible) ==
    IF is_admin /\ filter_visible_reports(visible, ReportsOf(id)) # {}
    THEN filter_visible_reports(visible, ReportsOf(id))
    ELSE {}

submission_view(contest, can_enter, is_admin, id, visible) ==
    /\ req' = [view |-> "submission_view", contest |-> contest,
               can_enter |-> can_enter, is_admin |-> is_admin,
               submission_id |-> id, visible |-> visible]
    /\ messages' = <<>>
    /\ outbox' = <<>>
    /\ UNCHANGED <<contestVars, teacherVars, registrationVars>>
    /\ resp' = CASE ~can_enter -> PermissionDenied
                 [] can_enter /\ ~SubmissionExists(contest, id) -> Http404
                 [] OTHER -> TemplateResponse("contests/submission.html",
                        [submission |-> id,
                         reports |-> RenderedReports(id, visible),
                         all_reports |-> AllReports(is_admin, id, visible)])

\* the judging pipeline (controller.judge and what it starts) writes the
\* reports of a submission
report_written(id, status) ==
    /\ id \in DOMAIN submissions
    /\ Len(reports) < MaxReports
    /\ reports' = Append(reports, [submission |-> id, status |-> status])
    /\ UNCHANGED <<req, resp, messages, outbox, submissions, statements,
                   teacherVars, registrationVars>>

\* lines 203-205 without the test
AttachmentAllowedAlways(attachment, visible) == TRUE

\* problem_attachment_view, lines 203-205
AttachmentAllowed(attachment, visible) ==
    attachment.problem \in {pi.problem : pi \in visible}

problem_attachment_view(contest, can_enter, attachment_id, visible) ==
    /\ req' = [view |-> "problem_attachment_view", contest |-> contest,
               can_enter |-> can_enter, attachment_id |-> attachment_id,
               visible |-> visible]
    /\ messages' = <<>>
    /\ outbox' = <<>>
    /\ UNCHANGED <<contestVars, teacherVars, registrationVars>>
    /\ LET found == {a \in ProblemAttachments : a.id = attachment_id}
       IN resp' = CASE ~can_enter -> PermissionDenied
                    [] can_enter /\ found = {} -> Http404
                    [] OTHER ->
                         LET attachment == CHOOSE a \in found : TRUE
                         IN IF AttachmentAllowed(attachment, visible)
                            THEN StreamFile(attachment.content)
                            ELSE PermissionDenied

InitContests ==
    /\ req = [view |-> "none"]
    /\ resp = [kind |-> "none"]
    /\ messages = <<>>
    /\ outbox = <<>>
    /\ submissions = <<>>
    /\ reports = <<>>
    /\ statements = <<>>
    /\ teachers = <<>>
    /\ acceptMails = [u \in Users |-> 0]
    /\ inflight = [w \in Workers |-> Idle]
    /\ registrationConfig = [c \in Contests |-> NoConfig]
    /\ pupils = NoRows
    /\ contestTeachers = NoRows
    /\ retiredKeys = [c \in Contests |-> {}]
    /\ lastSet = [c \in Contests |-> "none"]

NextContests ==
    \/ \E c \in Contests, e \in BOOLEAN, sp \in BOOLEAN, m \in Methods,
          v \in BOOLEAN :
          \E pi \in ProblemInstancesOf(c) : submit_view(c, e, sp, m, v, pi.id)
    \/ \E c \in Contests, a \in BOOLEAN, m \in Methods,
          id \in 1..MaxSubmissions + 1, k \in RequestedKinds,
          vk \in {{"NORMAL"}, Kinds} :
          change_submission_kind_view(c, a, m, id, k, vk)
    \/ \E c \in Contests, e \in BOOLEAN, id \in AttachmentIds :
          \E vis \in SUBSET ProblemInstancesOf(c) :
             problem_attachment_view(c, e, id, vis)

SpecContests == InitContests /\ [][NextContests]_vars

\* the reports of two submissions, one in each contest
InitReports ==
    /\ req = [view |-> "none"]
    /\ resp = [kind |-> "none"]
    /\ messages = <<>>
    /\ outbox = <<>>
    /\ submissions = create_submission(create_submission(<<>>, "pi1"), "pi3")
    /\ reports = <<>>
    /\ statements = <<>>
    /\ teachers = <<>>
    /\ acceptMails = [u \in Users |-> 0]
    /\ inflight = [w \in Workers |-> Idle]
    /\ registrationConfig = [c \in Contests |-> NoConfig]
    /\ pupils = NoRows
    /\ contestTeachers = NoRows
    /\ retiredKeys = [c \in Contests |-> {}]
    /\ lastSet = [c \in Contests |-> "none"]

NextReports ==
    \/ \E c \in Contests, e \in BOOLEAN, a \in BOOLEAN,
          id \in 1..MaxSubmissions + 1, vis \in SUBSET (1..MaxReports) :
          submission_view(c, e, a, id, vis)
    \/ \E id \in 1..MaxSubmissions, st \in Statuses : report_written(id, st)

SpecReports == InitReports /\ [][NextReports]_vars

----------------------------------------------------------------------------
(* Properties of contests/views.py.                                        *)

\* C1: a POST to submit_view with an invalid form creates no submission and
\* shows the submit page with the same, bound, form; a POST with a valid form
\* creates exactly one submission and redirects to 'my_submissions' of the
\* same contest; a request of another method creates no submission.
C1_SubmitCreatesOnlyOnValidPost ==
    [][req'.view = "submit_view" =>
        /\ req'.can_enter /\ req'.submittable /\ req'.method = "POST"
           /\ ~req'.form_valid =>
              /\ submissions' = submissions
              /\ resp' = TemplateResponse("contests/submit.html",
                     SubmissionForm(TRUE, req'.problem_instance))
        /\ req'.can_enter /\ req'.submittable /\ req'.method = "POST"
           /\ req'.form_valid =>
              /\ Len(submissions') = Len(submissions) + 1
              /\ SubSeq(submissions', 1, Len(submissions)) = submissions
              /\ submissions'[Len(submissions')].problem_instance =
                     req'.problem_instance
              /\ resp' = Redirect("my_submissions",
                     [contest_id |-> req'.contest])
        /\ req'.method # "POST" => submissions' = submissions]_vars

\* C1 witness: after a submission was made, an invalid form was posted and
\* came back bound
C1_Witness ==
    /\ req.view = "submit_view"
    /\ req.method = "POST"
    /\ ~req.form_valid
    /\ resp.kind = "template"
    /\ resp.template = "contests/submit.html"
    /\ resp.context.form.bound
    /\ Len(submissions) = 1

\* C2: problem_attachment_view streams an attachment only when its problem is
\* the problem of a problem instance visible to the request in the contest;
\* for an attachment whose problem is not, it raises PermissionDenied and
\* streams nothing; for an id of no attachment it raises not found.
C2_AttachmentOnlyOfVisibleProblem ==
    req.view = "problem_attachment_view" =>
        LET found == {a \in ProblemAttachments : a.id = req.attachment_id}
            shown == {pi.problem : pi \in req.visible}
        IN /\ resp.kind = "stream" =>
                 \E a \in found : a.problem \in shown /\ resp.file = a.content
           /\ req.can_enter /\ (\E a \in found : a.problem \notin shown) =>
                 resp = PermissionDenied
           /\ req.can_enter /\ found = {} => resp = Http404

\* C2 witness: a user who sees a problem instance of the contest asked for
\* the attachment of a problem of the other contest only and was refused
C2_Witness ==
    /\ req.view = "problem_attachment_view"
    /\ req.can_enter
    /\ req.contest = "c2"
    /\ req.visible # {}
    /\ req.attachment_id = 1
    /\ resp = PermissionDenied

\* C6: change_submission_kind_view changes the kind of a submission only when
\* the kind asked for is among controller.valid_kinds_for_submission; for
\* another kind the submission is unchanged and an error message is
\* recorded; both ways the response redirects to the submission's page; for a
\* submission that is not there it raises not found and changes nothing.
C6_KindChangedOnlyToValidKind ==
    [][req'.view = "change_submission_kind_view" =>
        LET id == req'.submission_id
            there == SubmissionExists(req'.contest, id)
            served == req'.is_admin /\ req'.method = "POST"
        IN /\ submissions' # submissions =>
                 served /\ there /\ req'.kind \in req'.valid_kinds
           /\ served /\ there =>
                 resp' = Redirect("submission",
                     [contest_id |-> req'.contest, submission_id |-> id])
           /\ served /\ there /\ req'.kind \in req'.valid_kinds =>
                 submissions' = [submissions EXCEPT ![id].kind = req'.kind]
           /\ served /\ there /\ req'.kind \notin req'.valid_kinds =>
                 /\ submissions' = submissions
                 /\ Len(messages') = 1
                 /\ messages'[1].level = "error"
           /\ served /\ ~there =>
                 submissions' = submissions /\ resp' = Http404]_vars

\* C6 witness: a kind the controller does not allow was asked for; the
\* submission kept its kind and the error was recorded
C6_Witness ==
    /\ req.view = "change_submission_kind_view"
    /\ req.kind = "IGNORED"
    /\ req.valid_kinds = {"NORMAL"}
    /\ resp.kind = "redirect"
    /\ resp.to = "submission"
    /\ Len(messages) = 1
    /\ messages[1].level = "error"
    /\ submissions[req.submission_id].kind = "NORMAL"

\* C7: the 'reports' of submission_view are reports of the submission asked
\* for, of status ACTIVE, that controller.filter_visible_reports lets
\* through; 'all_reports' is empty for every requester who is not a contest
\* admin, whatever reports there are.
C7_ReportsActiveAndAllReportsForAdminsOnly ==
    req.view = "submission_view" /\ resp.kind = "template" =>
        /\ \A r \in resp.context.reports :
              /\ r \in DOMAIN reports
              /\ reports[r].submission = req.submission_id
              /\ reports[r].status = "ACTIVE"
              /\ r \in req.visible
        /\ resp.context.all_reports # {} => req.is_admin
        /\ ~req.is_admin => resp.context.all_reports = {}

\* C7 witness: a requester who is no admin saw the active report of the
\* submission, not the inactive one, and no 'all_reports'
C7_Witness ==
    /\ req.view = "submission_view"
    /\ ~req.is_admin
    /\ resp.kind = "template"
    /\ resp.context.reports # {}
    /\ resp.context.all_reports = {}
    /\ \E r \in ReportsOf(req.submission_id) \cap req.visible :
          reports[r].status = "INACTIVE"

----------------------------------------------------------------------------
(* contests/views.py: problem_statement_view.  The ProblemStatement rows   *)
(* are those of problem p1; the other problems have none.                  *)

\* Python's None, as the language of a statement
NoneLanguage == "None"
\* the language codes of settings.LANGUAGES, in order
LANGUAGES == <<"en", "pl">>
\* languages a statement can have: listed ones, one not listed, '' and None
StatementLanguages == {"en", "pl", "de", "", NoneLanguage}
\* extensions a statement can have: the preferred ones and two others
StatementExtensions == {".pdf", ".ps", ".html", ".txt", ".doc", ".odt"}
\* sys.maxint
MaxInt == 2147483647

\* the order of Python's str on the strings sort_key compares
StringOrder == <<"", ".doc", ".odt">>

\* list.index(x): the first position of x, from 0; -1 stands for ValueError
index(list, x) ==
    IF \E i \in DOMAIN list : list[i] = x
    THEN (CHOOSE i \in DOMAIN list :
             list[i] = x /\ \A j \in 1..(i - 1) : list[j] # x) - 1
    ELSE -1

StrLess(a, b) == index(StringOrder, a) < index(StringOrder, b)

\* line 62-63
lang_prefs(current) == <<current, "", NoneLanguage>> \o LANGUAGES

\* line 64
ext_prefs == <<".pdf", ".ps", ".html", ".txt">>

\* lines 66-75 with the extension deciding before the language
sort_key_extension_first(statement, current) ==
    LET l == index(lang_prefs(current), statement.language)
        e == index(ext_prefs, statement.extension)
    IN <<IF e = -1 THEN MaxInt ELSE e,
         <<IF l = -1 THEN MaxInt ELSE l,
           IF e = -1 THEN statement.extension ELSE "">> >>

\* sort_key, lines 66-75
sort_key(statement, current) ==
    LET l == index(lang_prefs(current), statement.language)
        e == index(ext_prefs, statement.extension)
        lang_pref == IF l = -1 THEN MaxInt ELSE l
        ext_pref == IF e = -1 THEN <<MaxInt, statement.extension>>
                    ELSE <<e, "">>
    IN <<lang_pref, ext_pref>>

\* Python's < on two keys (n, (m, s))
KeyLess(k1, k2) ==
    \/ k1[1] < k2[1]
    \/ /\ k1[1] = k2[1]
       /\ \/ k1[2][1] < k2[2][1]
          \/ k1[2][1] = k2[2][1] /\ StrLess(k1[2][2], k2[2][2])

\* one step of a stable sort: x goes behind every element that is not greater
RECURSIVE Insert(_, _, _)
Insert(list, x, current) ==
    IF list = <<>> THEN <<x>>
    ELSE IF KeyLess(sort_key(x, current), sort_key(Head(list), current))
         THEN <<x>> \o list
         ELSE <<Head(list)>> \o Insert(Tail(list), x, current)

\* sorted(statements, key=sort_key), line 77
RECURSIVE sorted(_, _)
sorted(list, current) ==
    IF list = <<>> THEN <<>>
    ELSE Insert(sorted(SubSeq(list, 1, Len(list) - 1), current),
                list[Len(list)], current)

\* ProblemStatement.objects.filter(problem=problem), line 57
StatementsOf(problem) == IF problem = "p1" THEN statements ELSE <<>>

problem_statement_view(contest, can_enter, short_name, can_see, current) ==
    /\ req' = [view |-> "problem_statement_view", contest |-> contest,
               can_enter |-> can_enter, problem_instance |-> short_name,
               can_see |-> can_see, current |-> current]
    /\ messages' = <<>>
    /\ outbox' = <<>>
    /\ UNCHANGED <<contestVars, teacherVars, registrationVars>>
    /\ LET found == {pi \in ProblemInstancesOf(contest) :
                        pi.short_name = short_name}
       IN resp' =
           CASE ~can_enter -> PermissionDenied
             [] can_enter /\ found = {} -> Http404
             [] can_enter /\ found # {} /\ ~can_see -> PermissionDenied
             [] OTHER ->
                  LET pi == CHOOSE x \in found : TRUE
                      rows == StatementsOf(pi.problem)
                  IN IF rows = <<>>
                     THEN TemplateResponse(
                              "contests/no_problem_statement.html",
                              [problem_instance |-> pi.id])
                     ELSE StreamFile(sorted(rows, current)[1].content)

\* the tables of at most n statements, the content of each its own
RECURSIVE StatementTables(_)
StatementTables(n) ==
    IF n = 0 THEN {<<>>}
    ELSE StatementTables(n - 1) \cup
         {Append(t, [content |-> <<"statement", n>>, language |-> l,
                     extension |-> e]) :
             t \in {x \in StatementTables(n - 1) : Len(x) = n - 1},
             l \in StatementLanguages, e \in StatementExtensions}

InitStatements ==
    /\ req = [view |-> "none"]
    /\ resp = [kind |-> "none"]
    /\ messages = <<>>
    /\ outbox = <<>>
    /\ submissions = <<>>
    /\ reports = <<>>
    /\ statements \in StatementTables(MaxStatements)
    /\ teachers = <<>>
    /\ acceptMails = [u \in Users |-> 0]
    /\ inflight = [w \in Workers |-> Idle]
    /\ registrationConfig = [c \in Contests |-> NoConfig]
    /\ pupils = NoRows
    /\ contestTeachers = NoRows
    /\ retiredKeys = [c \in Contests |-> {}]
    /\ lastSet = [c \in Contests |-> "none"]

NextStatements ==
    \E c \in FlowContests, e \in BOOLEAN, n \in {"a", "b", "zz"},
       cs \in BOOLEAN, l \in {"en", "pl"} :
       problem_statement_view(c, e, n, cs, l)

SpecStatements == InitStatements /\ [][NextStatements]_vars

\* the rank of a language as C5 states it: its place among the current
\* language, '', None and settings.LANGUAGES in order; the others last
C5_LanguageRank(language, current) ==
    CASE language = current -> 0
      [] language # current /\ language = "" -> 1
      [] language # current /\ language = NoneLanguage -> 2
      [] language # current /\ language = "en" -> 3
      [] language # current /\ language = "pl" -> 4
      [] OTHER -> 5

\* the rank of an extension as C5 states it: the others last
C5_ExtensionRank(extension) ==
    CASE extension = ".pdf" -> 0
      [] extension = ".ps" -> 1
      [] extension = ".html" -> 2
      [] extension = ".txt" -> 3
      [] OTHER -> 4

\* a is strictly better than b in the order C5 states
C5_Better(a, b, current) ==
    \/ C5_LanguageRank(a.language, current) <
          C5_LanguageRank(b.language, current)
    \/ /\ C5_LanguageRank(a.language, current) =
             C5_LanguageRank(b.language, current)
       /\ \/ C5_ExtensionRank(a.extension) < C5_ExtensionRank(b.extension)
          \/ /\ C5_ExtensionRank(a.extension) = 4
             /\ C5_ExtensionRank(b.extension) = 4
             /\ a.extension = ".doc" /\ b.extension = ".odt"

\* the request reached a problem instance the user can see
C5_Served ==
    /\ req.view = "problem_statement_view"
    /\ req.can_enter /\ req.can_see
    /\ req.problem_instance \in {"a", "b"}

\* C5: for a visible problem with statements, problem_statement_view streams
\* a statement no other statement of the problem is better than, in the order
\* of language preference first and extension preference second; for a
\* problem with no statement it renders the 'no problem statement' page.
C5_BestStatementStreamed ==
    C5_Served =>
        LET rows == StatementsOf(
                IF req.problem_instance = "a" THEN "p1" ELSE "p2")
        IN /\ rows # <<>> =>
                 /\ resp.kind = "stream"
                 /\ \E i \in DOMAIN rows :
                       /\ resp.file = rows[i].content
                       /\ \A j \in DOMAIN rows :
                             ~C5_Better(rows[j], rows[i], req.current)
           /\ rows = <<>> =>
                 /\ resp.kind = "template"
                 /\ resp.template = "contests/no_problem_statement.html"

\* C5 witness: the statement in the current language was streamed although
\* an earlier statement in another language has the preferred extension
C5_Witness ==
    /\ C5_Served
    /\ req.current = "en"
    /\ Len(statements) = 2
    /\ statements[1].language = "pl" /\ statements[1].extension = ".pdf"
    /\ statements[2].language = "en" /\ statements[2].extension = ".odt"
    /\ resp = StreamFile(statements[2].content)

----------------------------------------------------------------------------
(* programs/admin.py: the admin action that diffs two selected submissions. *)

MaxSelected == 3
MaxDate == 3
Dates == 1..MaxDate

\* a Submission row with its date
DatedSubmission(date) ==
    [problem_instance |-> "pi1", kind |-> "NORMAL", date |-> date]

\* the ways to tick some of the first n rows of the change list, in the
\* order in which they were ticked
Selections(n) ==
    {s \in UNION {[1..k -> 1..n] : k \in 0..n} :
        \A i, j \in DOMAIN s : i # j => s[i] # s[j]}

\* the queryset the admin site hands to an action: the selected rows
Queryset(selection) == {selection[i] : i \in DOMAIN selection}

\* the rows of a queryset in some order
Orderings(queryset) ==
    {s \in [1..Cardinality(queryset) -> queryset] :
        \A i, j \in DOMAIN s : i # j => s[i] # s[j]}

\* queryset.order_by('-date')
order_by_date_descending(queryset) ==
    {s \in Orderings(queryset) :
        \A i, j \in DOMAIN s :
           i < j => submissions[s[i]].date >= submissions[s[j]].date}

\* queryset.order_by('date'): rows of equal date come in either order
order_by_date(queryset) ==
    {s \in Orderings(queryset) :
        \A i, j \in DOMAIN s :
           i < j => submissions[s[i]].date <= submissions[s[j]].date}

\* an admin action that returns None: the change list is shown again
ReturnNone == [kind |-> "None"]

\* ProgramSubmissionAdminMixin.submission_diff_action
submission_diff_action(contest, selection) ==
    LET queryset == Queryset(selection)
    IN /\ req' = [view |-> "submission_diff_action", contest |-> contest,
                  selection |-> selection]
       /\ outbox' = <<>>
       /\ UNCHANGED <<contestVars, teacherVars, registrationVars>>
       /\ IF Cardinality(queryset) # 2
          THEN /\ messages' = <<[level |-> "error", text |->
                      "You shall select exactly two submissions to diff"]>>
               /\ resp' = ReturnNone
          ELSE /\ messages' = <<>>
               /\ \E ordered \in order_by_date(queryset) :
                     resp' = Redirect("source_diff",
                         [contest_id |-> contest,
                          submission1_id |-> ordered[1],
                          submission2_id |-> ordered[2]])

\* the Submission tables the action is checked on
SubmissionTables ==
    UNION {[1..n -> {DatedSubmission(d) : d \in Dates}] : n \in 0..MaxSelected}

InitDiff ==
    /\ req = [view |-> "none"]
    /\ resp = [kind |-> "none"]
    /\ messages = <<>>
    /\ outbox = <<>>
    /\ submissions \in SubmissionTables
    /\ reports = <<>>
    /\ statements = <<>>
    /\ teachers = <<>>
    /\ acceptMails = [u \in Users |-> 0]
    /\ inflight = [w \in Workers |-> Idle]
    /\ registrationConfig = [c \in Contests |-> NoConfig]
    /\ pupils = NoRows
    /\ contestTeachers = NoRows
    /\ retiredKeys = [c \in Contests |-> {}]
    /\ lastSet = [c \in Contests |-> "none"]

NextDiff ==
    \E c \in Contests, selection \in Selections(Len(submissions)) :
       submission_diff_action(c, selection)

SpecDiff == InitDiff /\ [][NextDiff]_vars

\* C14: submission_diff_action on a selection of exactly two submissions
\* redirects to 'source_diff' of the request's contest with submission1_id
\* the selected submission of the earlier date and submission2_id the one of
\* the later date, whatever the order in which they were selected; on a
\* selection of any other size (0, 1, 3 or more) it records an error message
\* and returns no redirect.
C14_DiffOlderAgainstNewer ==
    [][req'.view = "submission_diff_action" =>
        LET selected == Queryset(req'.selection)
        IN IF Cardinality(selected) = 2
           THEN /\ resp'.kind = "redirect"
                /\ resp'.to = "source_diff"
                /\ resp'.args.contest_id = req'.contest
                /\ {resp'.args.submission1_id, resp'.args.submission2_id}
                      = selected
                /\ submissions[resp'.args.submission1_id].date
                      <= submissions[resp'.args.submission2_id].date
           ELSE /\ resp' = ReturnNone
                /\ Len(messages') = 1
                /\ messages'[1].level = "error"]_vars

\* C14 witness: the newer of two submissions was selected first and has the
\* lower id, and the diff is of the older one against it
C14_Witness ==
    /\ req.view = "submission_diff_action"
    /\ Len(req.selection) = 2
    /\ req.selection[1] < req.selection[2]
    /\ submissions[req.selection[1]].date > submissions[req.selection[2]].date
    /\ resp = Redirect("source_diff",
           [contest_id |-> req.contest,
            submission1_id |-> req.selection[2],
            submission2_id |-> req.selection[1]])

====
